---- MODULE Spec2Model ----
(***************************************************************************)
(* Model of cli/update_plot.py: the generator data_gen reads 8-byte        *)
(* frames from standard input, decodes each as two little-endian unsigned  *)
(* 32-bit integers, prints and yields it; the animation driver passes      *)
(* every yielded record to animate, which widens the running bounds, sets  *)
(* the axis limits and appends the point to the plotted series.            *)
(*                                                                         *)
(* The program is single-threaded.  pc names the source line about to be   *)
(* executed; one action models one statement.                              *)
(*                                                                         *)
(* Numbers.  Python integers and floats hold every value of the program    *)
(* exactly (all are below 2^53), but TLC's integers stop at 2^31 - 1, so a *)
(* number n is held as the pair <<n \div 2^16, n % 2^16>> and compared     *)
(* lexicographically.  The axis limits x_min * 0.99 - 1 and                *)
(* x_max * 1.01 + 1 are held in hundredths (99 * x_min - 100 and           *)
(* 101 * x_max + 100): the rounding of the floating-point product is below *)
(* 2^-20 for these magnitudes, far below the distance of at least 1        *)
(* between a limit and any plotted point.                                  *)
(***************************************************************************)
EXTENDS Integers, Sequences, FiniteSets

VARIABLES
    stdin,        \* the bytes standard input will deliver, in order
    fd_pos,       \* how many of them fd has consumed
    line,         \* data_gen's local: the bytes of the last fd.read(8)
    value,        \* data_gen's local: the unpacked record
    stdout,       \* the records printed so far
    yielded,      \* the records yielded to the animation driver so far
    data,         \* animate's parameter
    x_new, y_new, \* animate's locals
    x_min, x_max, y_min, y_max,
    xlim, ylim,   \* the axis limits last set, in hundredths
    x, y,         \* the series
    line_data,    \* the coordinates last given to the plotted line
    processed,    \* how many calls of animate have returned
    pc,           \* the source statement about to execute
    exit_status   \* <<>> while the process runs, <<status>> once it exited

vars == <<stdin, fd_pos, line, value, stdout, yielded, data, x_new, y_new,
          x_min, x_max, y_min, y_max, xlim, ylim, x, y, line_data,
          processed, pc, exit_status>>

bounds == <<x_min, x_max, y_min, y_max>>
series == <<x, y>>

----------------------------------------------------------------------------
(* Bounds of the model *)

MaxFrames == 3

(* Program constants *)

FrameLen == 8
Sentinel == 999999999

----------------------------------------------------------------------------
(* Numbers as pairs of 16-bit limbs *)

Base == 256 * 256

Norm(h, l) == <<h + (l \div Base), l % Base>>

Num(n) == Norm(0, n)

\* k * n + c
MulAdd(n, k, c) == Norm(k * n[1], k * n[2] + c)

Lt(a, b) == a[1] < b[1] \/ (a[1] = b[1] /\ a[2] < b[2])

Gt(a, b) == Lt(b, a)

Le(a, b) == ~Lt(b, a)

Unset == <<>>

----------------------------------------------------------------------------
(* fd.read(8): up to 8 bytes from the read position; fewer only at the end *)

Min(a, b) == IF a < b THEN a ELSE b

\* variant: a read into a zero-filled 8-byte buffer, returned whole
ReadBytesPadded(n) ==
    [i \in 1..n |-> IF fd_pos + i <= Len(stdin) THEN stdin[fd_pos + i] ELSE 0]

ReadBytes(n) == SubSeq(stdin, fd_pos + 1, Min(fd_pos + n, Len(stdin)))

RECURSIVE BigEndian(_)
BigEndian(bs) ==
    IF bs = <<>> THEN <<0, 0>>
    ELSE LET n == Len(bs)
             r == BigEndian(SubSeq(bs, 1, n - 1))
         IN  <<256 * r[1] + ((256 * r[2] + bs[n]) \div (256 * 256)),
               (256 * r[2] + bs[n]) % (256 * 256)>>

\* variant: struct.unpack('>II', line)
UnpackBigEndian(bs) ==
    <<BigEndian(SubSeq(bs, 1, 4)), BigEndian(SubSeq(bs, 5, 8))>>

(* struct.unpack('<II', line): two unsigned 32-bit integers, each from 4   *)
(* bytes, least significant byte first.                                    *)

RECURSIVE LittleEndian(_)
LittleEndian(bs) ==
    IF bs = <<>> THEN Num(0)
    ELSE MulAdd(LittleEndian(Tail(bs)), 256, Head(bs))

Unpack(bs) == <<LittleEndian(SubSeq(bs, 1, 4)), LittleEndian(SubSeq(bs, 5, 8))>>

\* variant: x_min * 0.99 + 1
LowerLimitPlus(lo) == <<99 * lo[1] + ((99 * lo[2] + 100) \div (256 * 256)),
                        (99 * lo[2] + 100) % (256 * 256)>>

(* x_min * 0.99 - 1 and x_max * 1.01 + 1, in hundredths *)

LowerLimit(lo) == MulAdd(lo, 99, 0 - 100)

UpperLimit(hi) == MulAdd(hi, 101, 100)

----------------------------------------------------------------------------
(* The input streams of the model *)

Frames ==
    { <<0, 0, 0, 0, 0, 0, 0, 0>>,               \* (0, 0)
      <<1, 0, 0, 0, 2, 0, 0, 0>>,               \* (1, 2)
      <<255, 201, 154, 59, 1, 2, 3, 4>>,        \* (999999999, 67305985)
      <<255, 255, 255, 255, 0, 202, 154, 59>> } \* (4294967295, 1000000000)

RECURSIVE Flatten(_)
Flatten(fs) == IF fs = <<>> THEN <<>> ELSE Head(fs) \o Flatten(Tail(fs))

FrameSeqs == UNION {[1..n -> Frames] : n \in 0..MaxFrames}

Trailing == {SubSeq(f, 1, t) : f \in Frames, t \in 0..(FrameLen - 1)}

Streams == {Flatten(fs) \o tr : fs \in FrameSeqs, tr \in Trailing}

----------------------------------------------------------------------------
(* __main__: the state before the animation starts *)

InitState ==
    /\ fd_pos = 0
    /\ line = Unset
    /\ value = Unset
    /\ stdout = <<>>
    /\ yielded = <<>>
    /\ data = Unset
    /\ x_new = Unset
    /\ y_new = Unset
    /\ x_min = Num(Sentinel)
    /\ x_max = Num(0)
    /\ y_min = Num(Sentinel)
    /\ y_max = Num(0)
    /\ xlim = Unset
    /\ ylim = Unset
    /\ x = <<>>
    /\ y = <<>>
    /\ line_data = <<<<>>, <<>>>>
    /\ processed = 0
    /\ pc = "read"
    /\ exit_status = <<>>

Init == stdin \in Streams /\ InitState

Running == exit_status = <<>>

----------------------------------------------------------------------------
(* data_gen *)

\* line = fd.read(8)
Read ==
    /\ Running /\ pc = "read"
    /\ line' = ReadBytes(FrameLen)
    /\ fd_pos' = fd_pos + Len(ReadBytes(FrameLen))
    /\ pc' = "check"
    /\ UNCHANGED <<stdin, value, stdout, yielded, data, x_new, y_new, bounds,
                   xlim, ylim, series, line_data, processed, exit_status>>

\* if len(line) == 8: taken
FullRead ==
    /\ Running /\ pc = "check"
    /\ Len(line) = FrameLen
    /\ pc' = "unpack"
    /\ UNCHANGED <<stdin, fd_pos, line, value, stdout, yielded, data, x_new,
                   y_new, bounds, xlim, ylim, series, line_data, processed,
                   exit_status>>

\* if len(line) == 8: not taken; while True loops to the next read
ShortRead ==
    /\ Running /\ pc = "check"
    /\ Len(line) # FrameLen
    /\ pc' = "read"
    /\ UNCHANGED <<stdin, fd_pos, line, value, stdout, yielded, data, x_new,
                   y_new, bounds, xlim, ylim, series, line_data, processed,
                   exit_status>>

\* value = struct.unpack('<II', line)
UnpackValue ==
    /\ Running /\ pc = "unpack"
    /\ value' = Unpack(line)
    /\ pc' = "print"
    /\ UNCHANGED <<stdin, fd_pos, line, stdout, yielded, data, x_new, y_new,
                   bounds, xlim, ylim, series, line_data, processed,
                   exit_status>>

\* variant: the print is missing
PrintValueSkipped ==
    /\ exit_status = <<>> /\ pc = "print"
    /\ pc' = "yield"
    /\ UNCHANGED <<stdin, fd_pos, line, value, stdout, yielded, data, x_new,
                   y_new, bounds, xlim, ylim, series, line_data, processed,
                   exit_status>>

\* print(value)
PrintValue ==
    /\ Running /\ pc = "print"
    /\ stdout' = Append(stdout, value)
    /\ pc' = "yield"
    /\ UNCHANGED <<stdin, fd_pos, line, value, yielded, data, x_new, y_new,
                   bounds, xlim, ylim, series, line_data, processed,
                   exit_status>>

\* yield value: the driver calls animate(value)
YieldValue ==
    /\ Running /\ pc = "yield"
    /\ yielded' = Append(yielded, value)
    /\ data' = value
    /\ pc' = "float_x"
    /\ UNCHANGED <<stdin, fd_pos, line, value, stdout, x_new, y_new, bounds,
                   xlim, ylim, series, line_data, processed, exit_status>>

----------------------------------------------------------------------------
(* animate *)

\* x_new = float(data[0])
FloatX ==
    /\ Running /\ pc = "float_x"
    /\ x_new' = data[1]
    /\ pc' = "float_y"
    /\ UNCHANGED <<stdin, fd_pos, line, value, stdout, yielded, data, y_new,
                   bounds, xlim, ylim, series, line_data, processed,
                   exit_status>>

\* y_new = float(data[1])
FloatY ==
    /\ Running /\ pc = "float_y"
    /\ y_new' = data[2]
    /\ pc' = "if_x_max"
    /\ UNCHANGED <<stdin, fd_pos, line, value, stdout, yielded, data, x_new,
                   bounds, xlim, ylim, series, line_data, processed,
                   exit_status>>

\* variant: x_max = x_new without the test
IfXMaxAlways ==
    /\ exit_status = <<>> /\ pc = "if_x_max"
    /\ x_max' = x_new
    /\ pc' = "if_x_min"
    /\ UNCHANGED <<stdin, fd_pos, line, value, stdout, yielded, data, x_new,
                   y_new, x_min, y_min, y_max, xlim, ylim, series, line_data,
                   processed, exit_status>>

\* if x_new > x_max: x_max = x_new
IfXMax ==
    /\ Running /\ pc = "if_x_max"
    /\ x_max' = IF Gt(x_new, x_max) THEN x_new ELSE x_max
    /\ pc' = "if_x_min"
    /\ UNCHANGED <<stdin, fd_pos, line, value, stdout, yielded, data, x_new,
                   y_new, x_min, y_min, y_max, xlim, ylim, series, line_data,
                   processed, exit_status>>

\* if x_new < x_min: x_min = x_new
IfXMin ==
    /\ Running /\ pc = "if_x_min"
    /\ x_min' = IF Lt(x_new, x_min) THEN x_new ELSE x_min
    /\ pc' = "if_y_max"
    /\ UNCHANGED <<stdin, fd_pos, line, value, stdout, yielded, data, x_new,
                   y_new, x_max, y_min, y_max, xlim, ylim, series, line_data,
                   processed, exit_status>>

\* if y_new > y_max: y_max = y_new
IfYMax ==
    /\ Running /\ pc = "if_y_max"
    /\ y_max' = IF Gt(y_new, y_max) THEN y_new ELSE y_max
    /\ pc' = "if_y_min"
    /\ UNCHANGED <<stdin, fd_pos, line, value, stdout, yielded, data, x_new,
                   y_new, x_min, x_max, y_min, xlim, ylim, series, line_data,
                   processed, exit_status>>

\* variant: if y_new < y_max: y_min = y_new
IfYMinAgainstMax ==
    /\ exit_status = <<>> /\ pc = "if_y_min"
    /\ y_min' = IF Lt(y_new, y_max) THEN y_new ELSE y_min
    /\ pc' = "set_xlim"
    /\ UNCHANGED <<stdin, fd_pos, line, value, stdout, yielded, data, x_new,
                   y_new, x_min, x_max, y_max, xlim, ylim, series, line_data,
                   processed, exit_status>>

\* if y_new < y_min: y_min = y_new
IfYMin ==
    /\ Running /\ pc = "if_y_min"
    /\ y_min' = IF Lt(y_new, y_min) THEN y_new ELSE y_min
    /\ pc' = "set_xlim"
    /\ UNCHANGED <<stdin, fd_pos, line, value, stdout, yielded, data, x_new,
                   y_new, x_min, x_max, y_max, xlim, ylim, series, line_data,
                   processed, exit_status>>

\* ax.set_xlim(x_min * 0.99 - 1, x_max * 1.01 + 1)
SetXlim ==
    /\ Running /\ pc = "set_xlim"
    /\ xlim' = <<LowerLimit(x_min), UpperLimit(x_max)>>
    /\ pc' = "set_ylim"
    /\ UNCHANGED <<stdin, fd_pos, line, value, stdout, yielded, data, x_new,
                   y_new, bounds, ylim, series, line_data, processed,
                   exit_status>>

\* ax.set_ylim(y_min * 0.99 - 1, y_max * 1.01 + 1)
SetYlim ==
    /\ Running /\ pc = "set_ylim"
    /\ ylim' = <<LowerLimit(y_min), UpperLimit(y_max)>>
    /\ pc' = "append_x"
    /\ UNCHANGED <<stdin, fd_pos, line, value, stdout, yielded, data, x_new,
                   y_new, bounds, xlim, series, line_data, processed,
                   exit_status>>

\* variant: x.insert(0, x_new)
AppendXFront ==
    /\ exit_status = <<>> /\ pc = "append_x"
    /\ x' = <<x_new>> \o x
    /\ pc' = "append_y"
    /\ UNCHANGED <<stdin, fd_pos, line, value, stdout, yielded, data, x_new,
                   y_new, bounds, xlim, ylim, y, line_data, processed,
                   exit_status>>

\* x.append(x_new)
AppendX ==
    /\ Running /\ pc = "append_x"
    /\ x' = Append(x, x_new)
    /\ pc' = "append_y"
    /\ UNCHANGED <<stdin, fd_pos, line, value, stdout, yielded, data, x_new,
                   y_new, bounds, xlim, ylim, y, line_data, processed,
                   exit_status>>

\* variant: the append to y is missing
AppendYSkipped ==
    /\ exit_status = <<>> /\ pc = "append_y"
    /\ pc' = "set_data"
    /\ UNCHANGED <<stdin, fd_pos, line, value, stdout, yielded, data, x_new,
                   y_new, bounds, xlim, ylim, series, line_data, processed,
                   exit_status>>

\* y.append(y_new)
AppendY ==
    /\ Running /\ pc = "append_y"
    /\ y' = Append(y, y_new)
    /\ pc' = "set_data"
    /\ UNCHANGED <<stdin, fd_pos, line, value, stdout, yielded, data, x_new,
                   y_new, bounds, xlim, ylim, x, line_data, processed,
                   exit_status>>

\* line.set_data(x, y)
SetData ==
    /\ Running /\ pc = "set_data"
    /\ line_data' = <<x, y>>
    /\ pc' = "return"
    /\ UNCHANGED <<stdin, fd_pos, line, value, stdout, yielded, data, x_new,
                   y_new, bounds, xlim, ylim, series, processed, exit_status>>

\* return line, : the locals die; the driver resumes data_gen after its yield
Return ==
    /\ Running /\ pc = "return"
    /\ processed' = processed + 1
    /\ data' = Unset
    /\ x_new' = Unset
    /\ y_new' = Unset
    /\ pc' = "read"
    /\ UNCHANGED <<stdin, fd_pos, line, value, stdout, yielded, bounds, xlim,
                   ylim, series, line_data, exit_status>>

\* the statements of animate's try block
TryPcs == {"float_x", "float_y", "if_x_max", "if_x_min", "if_y_max",
           "if_y_min", "set_xlim", "set_ylim", "append_x", "append_y",
           "set_data", "return"}

\* variant: except KeyboardInterrupt: sys.exit(1)
KeyboardInterruptExit1 ==
    /\ exit_status = <<>> /\ pc \in TryPcs
    /\ exit_status' = <<1>>
    /\ UNCHANGED <<stdin, fd_pos, line, value, stdout, yielded, data, x_new,
                   y_new, bounds, xlim, ylim, series, line_data, processed,
                   pc>>

\* except KeyboardInterrupt: sys.exit(0)
KeyboardInterrupt ==
    /\ Running /\ pc \in TryPcs
    /\ exit_status' = <<0>>
    /\ UNCHANGED <<stdin, fd_pos, line, value, stdout, yielded, data, x_new,
                   y_new, bounds, xlim, ylim, series, line_data, processed,
                   pc>>

----------------------------------------------------------------------------

Next ==
    \/ Read
    \/ FullRead
    \/ ShortRead
    \/ UnpackValue
    \/ PrintValue
    \/ YieldValue
    \/ FloatX
    \/ FloatY
    \/ IfXMax
    \/ IfXMin
    \/ IfYMax
    \/ IfYMin
    \/ SetXlim
    \/ SetYlim
    \/ AppendX
    \/ AppendY
    \/ SetData
    \/ Return
    \/ KeyboardInterrupt

Spec == Init /\ [][Next]_vars

(* A run on one frame of arbitrary bytes, for the claims about decoding *)

ByteVals == {0, 1, 128, 255}

InitDecode == stdin \in [1..FrameLen -> ByteVals] /\ InitState

SpecDecode == InitDecode /\ [][Next]_vars

----------------------------------------------------------------------------
(* Vocabulary of the claims *)

\* the number a + 256 b + 65536 c + 16777216 d
Poly(a, b, c, d) == <<c + 256 * d, a + 256 * b>>

Decoded(f) == <<Poly(f[1], f[2], f[3], f[4]), Poly(f[5], f[6], f[7], f[8])>>

IsU32(n) == n[1] \in 0..(Base - 1) /\ n[2] \in 0..(Base - 1)

\* the i-th consecutive 8-byte frame of the input
StreamFrame(i) == SubSeq(stdin, FrameLen * (i - 1) + 1, FrameLen * i)

FullFrames == Len(stdin) \div FrameLen

IsPrefix(s, t) == Len(s) <= Len(t) /\ s = SubSeq(t, 1, Len(s))

RECURSIVE MaxOf(_, _)
MaxOf(s, m) ==
    IF s = <<>> THEN m
    ELSE MaxOf(Tail(s), IF Lt(m, Head(s)) THEN Head(s) ELSE m)

RECURSIVE MinOf(_, _)
MinOf(s, m) ==
    IF s = <<>> THEN m
    ELSE MinOf(Tail(s), IF Lt(Head(s), m) THEN Head(s) ELSE m)

\* the j-th components of the records yielded so far
Seen(j) == [i \in 1..Len(yielded) |-> yielded[i][j]]

Hundredths(n) == MulAdd(n, 100, 0)

Inside(lim, n) == Lt(lim[1], Hundredths(n)) /\ Lt(Hundredths(n), lim[2])

----------------------------------------------------------------------------
\* C1: once a read has returned fewer than 8 bytes the reader is finished:
\* it does not go on to another read.
C1_NoReadAfterShortRead ==
    [][(Running /\ pc = "check" /\ Len(line) < FrameLen) => pc' # "read"]_vars

\* C2: the reader yields at most as many records as the input has full
\* 8-byte frames, the i-th record yielded is the decoding of the i-th
\* consecutive frame, and so nothing is yielded from the trailing bytes.
C2_OnlyFullFramesYielded ==
    /\ Len(yielded) <= FullFrames
    /\ \A i \in 1..Len(yielded) : yielded[i] = Decoded(StreamFrame(i))

C2_Witness ==
    /\ pc = "check"
    /\ Len(line) \in 1..(FrameLen - 1)
    /\ Len(yielded) = 2
    /\ FullFrames = 2

\* C3: when animate has processed every record yielded so far, x_max is the
\* maximum of 0 and the x seen, x_min the minimum of 999999999 and the x
\* seen, and likewise y_max and y_min over the y seen.
C3_BoundsAreRunningExtremes ==
    processed = Len(yielded) =>
        /\ x_max = MaxOf(Seen(1), Num(0))
        /\ x_min = MinOf(Seen(1), Num(Sentinel))
        /\ y_max = MaxOf(Seen(2), Num(0))
        /\ y_min = MinOf(Seen(2), Num(Sentinel))

C3_Witness ==
    /\ processed = 2
    /\ Len(yielded) = 2
    /\ x_min = Num(Sentinel)
    /\ \A i \in 1..2 : Gt(x[i], Num(Sentinel))
    /\ x_max = <<Base - 1, Base - 1>>
    /\ y_min = Num(Sentinel)
    /\ Gt(y_max, Num(Sentinel))

\* C4: when animate has processed every record yielded so far, xs and ys
\* both have one element per processed record and (xs[i], ys[i]) is the
\* i-th record yielded; every step leaves xs and ys as they are or appends
\* exactly one element.
C4_SeriesIsTheRecordLog ==
    /\ [](processed = Len(yielded) =>
            /\ Len(x) = processed
            /\ Len(y) = processed
            /\ \A i \in 1..processed : <<x[i], y[i]>> = yielded[i])
    /\ [][/\ IsPrefix(x, x') /\ Len(x') <= Len(x) + 1
          /\ IsPrefix(y, y') /\ Len(y') <= Len(y) + 1
          /\ (processed' # processed =>
                /\ processed' = processed + 1
                /\ Len(x') = processed'
                /\ Len(y') = processed')]_vars

C4_Witness ==
    /\ processed = 3
    /\ pc = "read"
    /\ Running
    /\ Len(x) = 3
    /\ x[1] # x[2]
    /\ y[2] # y[3]

\* C5 as stated: xs and ys have the same length in every reachable state,
\* the state left by an interrupt part-way through an update included.
C5_SameLengthAlways == Len(x) = Len(y)

\* C5 amended: xs and ys have the same length in every reachable state
\* except between the two appends of an update, where xs is longer by one;
\* an interrupt there leaves that state behind.
C5_SameLengthOutsideAppends ==
    Len(x) = Len(y) + (IF pc = "append_y" THEN 1 ELSE 0)

C5_Witness ==
    /\ ~Running
    /\ pc = "append_y"
    /\ Len(x) = 2
    /\ Len(y) = 1

\* C6: an interrupt is handled at every statement of animate; the step that
\* ends the process sets exit status 0 and changes nothing else, and no
\* step follows it.
C6_InterruptExitsAtOnce ==
    /\ []((Running /\ pc \in TryPcs) => ENABLED KeyboardInterrupt)
    /\ [][/\ (Running /\ ~Running') =>
                /\ pc \in TryPcs
                /\ exit_status' = <<0>>
                /\ UNCHANGED <<stdin, fd_pos, line, value, stdout, yielded,
                               data, x_new, y_new, bounds, xlim, ylim, series,
                               line_data, processed, pc>>
          /\ ~Running => UNCHANGED vars]_vars

C6_Witness ==
    /\ exit_status = <<0>>
    /\ pc = "if_x_min"
    /\ processed = 1
    /\ x_max = x_new
    /\ Gt(x_new, x[1])
    /\ Len(x) = 1

\* C7: every 8-byte frame is decoded, and to x = a + 256 b + 65536 c +
\* 16777216 d and y = e + 256 f + 65536 g + 16777216 h, both in 0..2^32-1.
C7_LittleEndianDecode ==
    /\ (Running /\ pc = "check" /\ Len(line) = FrameLen) => ENABLED FullRead
    /\ (Running /\ pc = "unpack") => (Len(line) = FrameLen /\ ENABLED UnpackValue)
    /\ pc \in {"print", "yield"} =>
            /\ value = Decoded(line)
            /\ IsU32(value[1])
            /\ IsU32(value[2])

C7_Witness ==
    /\ pc = "print"
    /\ line = <<1, 128, 0, 255, 255, 0, 128, 1>>
    /\ value = <<<<65280, 32769>>, <<384, 255>>>>

\* C8: no step raises x_min or y_min or lowers x_max or y_max, and the read
\* and the length test change neither Bounds nor Series.
C8_BoundsOnlyWiden ==
    [][/\ Le(x_min', x_min)
       /\ Le(x_max, x_max')
       /\ Le(y_min', y_min)
       /\ Le(y_max, y_max')
       /\ pc \in {"read", "check"} => UNCHANGED <<bounds, series>>]_vars

C8_Witness ==
    /\ pc = "check"
    /\ Len(line) < FrameLen
    /\ processed = 2
    /\ Lt(x[2], x[1])
    /\ x_min = x[2]
    /\ x_max = x[1]
    /\ Lt(y[2], y[1])

\* C9: the records yielded are a prefix of the records printed, the printed
\* records are the decoded frames in arrival order, each once, and at most
\* one printed record is not yet yielded.
C9_PrintedBeforeYielded ==
    /\ IsPrefix(yielded, stdout)
    /\ Len(stdout) <= Len(yielded) + 1
    /\ Len(stdout) <= FullFrames
    /\ \A i \in 1..Len(stdout) : stdout[i] = Decoded(StreamFrame(i))
    /\ pc = "yield" => (Len(stdout) = Len(yielded) + 1 /\ stdout[Len(stdout)] = value)
    /\ pc \in TryPcs => (Len(stdout) = Len(yielded) /\ yielded[Len(yielded)] = data)

C9_Witness ==
    /\ pc = "yield"
    /\ Len(stdout) = 2
    /\ Len(yielded) = 1
    /\ stdout[1] # stdout[2]

\* C10: once animate has processed a record, x_min <= x_max, y_min <= y_max
\* and every stored point lies strictly inside the limits last set.
C10_PointsInsideLimits ==
    processed >= 1 =>
        /\ Le(x_min, x_max)
        /\ Le(y_min, y_max)
        /\ \A i \in 1..Len(x) : Inside(xlim, x[i])
        /\ \A i \in 1..Len(y) : Inside(ylim, y[i])

C10_Witness ==
    /\ processed = 2
    /\ x[1] = Num(0)
    /\ x[2] = <<Base - 1, Base - 1>>
    /\ x_min = Num(0)
    /\ xlim = <<<<0 - 1, Base - 100>>, <<101 * Base - 1, Base - 1>>>>

====
